---- MODULE Spec2Model ----
(***************************************************************************)
(* Polypong server: the authoritative room simulation (ServerGame), the    *)
(* room registry and the per-socket handlers of the server entry point.    *)
(*                                                                         *)
(* Time is counted in whole units; UnitsPerSecond units make one second.   *)
(* The BaseGame and Paddle classes are imported by ServerGame.js but are   *)
(* not part of the sources at hand; their operators below follow the       *)
(* design document and are marked as such.                                 *)
(***************************************************************************)
EXTENDS Integers, Sequences, FiniteSets, TLC

\* ------------------------------------------------------------- bounds
MaxTime == 2
\* Spec: two connections that each join once, one room id, keys pressed one way.
Sockets == {"a", "b"}
RoomIds == {"r1"}
JoinBudget == [s \in Sockets |-> 1]
KeyDirs == {0, 1}
\* RoomSpec: three connections, two of which may send joinRoom twice.
RoomBudget == [s \in {"a", "b", "c"} |-> IF s = "b" THEN 1 ELSE 2]
\* GuestSpec: three connections that each join once, and the dir values their
\* input events carry.
GuestBudget == [s \in {"a", "b", "c"} |-> 1]
SentDirs == {1, 2}
\* HallSpec: two room ids for the two connections of Spec.
HallRooms == {"r1", "r2"}
\* RouterSpec: two clients that have yet to connect and may then join twice.
RouterBudget == [s \in Sockets |-> 2]

\* -------------------------------------------------- program constants
Sides == 2
DtClamp == 2
CELEBRATION_DURATION == 2
COUNTDOWN_DURATION == 2
UnitsPerSecond == 2
PosMax == 2
PosMid == 1

Dirs == {-1, 0, 1}
NoInstance == "none"
instanceId == "A"
isFlyInstance == TRUE
Instances == {NoInstance, "A", "B"}

\* The two ways the process is started: with FLY_MACHINE_ID set (as above) or
\* without it.
FlyProcess == [instanceId |-> instanceId, isFlyInstance |-> isFlyInstance]
LocalProcess == [instanceId |-> "local", isFlyInstance |-> FALSE]
Processes == {FlyProcess, LocalProcess}

VARIABLES
    games,      \* sequence of every ServerGame object ever constructed
    registry,   \* the `games` Map of the entry point: room id -> game (0 = no entry)
    sockets,    \* per socket: connection status and the closures it has registered
    out,        \* the messages emitted by the last event, in order
    env         \* the process: its instance id and whether it runs on Fly.io

vars == <<games, registry, sockets, out, env>>

Min(a, b) == IF a < b THEN a ELSE b
Max(a, b) == IF a > b THEN a ELSE b
Floor(t) == t \div UnitsPerSecond

\* ------------------------------------------------------------- Paddle
Paddle(edgeIndex) ==
    [edgeIndex |-> edgeIndex, position |-> PosMid, moveDirection |-> 0]

PaddleMove(p, dir, dt) ==
    [p EXCEPT !.position = Max(0, Min(PosMax, p.position + dir * dt))]

\* ----------------------------------------------------------- BaseGame
BaseGame ==
    [gameState |-> "COUNTDOWN",
     paddles |-> <<>>,
     score |-> 0,
     lastScore |-> 0,
     finalTime |-> 0,
     timeElapsed |-> 0,
     celebrationTimer |-> 0,
     countdownTimer |-> COUNTDOWN_DURATION,
     restarting |-> FALSE]

setGameState(game, s) == [game EXCEPT !.gameState = s]

startCelebration(game) ==
    [game EXCEPT !.gameState = "SCORING",
                 !.celebrationTimer = CELEBRATION_DURATION]

resetState(game) ==
    [game EXCEPT !.score = 0,
                 !.timeElapsed = 0,
                 !.celebrationTimer = 0,
                 !.countdownTimer = COUNTDOWN_DURATION]

\* --------------------------------------------------------- ServerGame
ServerGame(id, roomId) ==
    BaseGame @@
    [id |-> id,
     roomId |-> roomId,
     players |-> <<>>,
     readyEdges |-> {},
     running |-> FALSE,
     interval |-> FALSE]

\* What a step works on: a game object and the messages emitted so far.
W(game, o) == [g |-> game, out |-> o]

PaddleEdges(game) == {game.paddles[i].edgeIndex : i \in DOMAIN game.paddles}
PlayerEdges(game) == {game.players[s] : s \in DOMAIN game.players}

StateMsg(game) ==
    [type |-> "gameState",
     room |-> game.roomId,
     game |-> game.id,
     paddles |-> [i \in DOMAIN game.paddles |->
                    [edgeIndex |-> game.paddles[i].edgeIndex,
                     position |-> game.paddles[i].position]],
     readyEdges |-> game.readyEdges,
     gameState |-> game.gameState,
     score |-> game.score,
     lastScore |-> game.lastScore,
     finalTime |-> game.finalTime,
     timeElapsed |-> game.timeElapsed,
     countdownTimer |-> game.countdownTimer,
     celebrationTimer |-> game.celebrationTimer]

broadcastState(w) == W(w.g, Append(w.out, StateMsg(w.g)))

\* resetGame as it would be without `this.readyEdges.clear()`.
resetGame_KeepsReady(w) ==
    IF w.g.restarting THEN w
    ELSE LET g1 == setGameState(w.g, "COUNTDOWN")
             g2 == resetState(g1)
             g4 == [g2 EXCEPT !.paddles =
                       [i \in DOMAIN g2.paddles |->
                          [g2.paddles[i] EXCEPT !.position = PosMid,
                                                !.moveDirection = 0]]]
         IN W(g4, Append(w.out, StateMsg(g4)))

resetGame(w) ==
    IF w.g.restarting THEN w
    ELSE LET g1 == setGameState(w.g, "COUNTDOWN")
             g2 == resetState(g1)
             g3 == [g2 EXCEPT !.readyEdges = {}]
             g4 == [g3 EXCEPT !.paddles =
                       [i \in DOMAIN g3.paddles |->
                          [g3.paddles[i] EXCEPT !.position = PosMid,
                                                !.moveDirection = 0]]]
         IN broadcastState(W(g4, w.out))

\* checkAllReady as it would be without the celebration-timer gate.
checkAllReady_NoTimerGate(w) ==
    IF w.g.restarting THEN w
    ELSE IF w.g.gameState # "SCORING" \/ DOMAIN w.g.players = {} THEN w
    ELSE IF \A s \in DOMAIN w.g.players : w.g.players[s] \in w.g.readyEdges
         THEN resetGame(w)
         ELSE w

\* checkAllReady as it would be if one ready player were enough.
checkAllReady_AnyReady(w) ==
    IF w.g.restarting THEN w
    ELSE IF w.g.gameState # "SCORING" \/ DOMAIN w.g.players = {} THEN w
    ELSE IF w.g.celebrationTimer > 0 THEN w
    ELSE IF \E s \in DOMAIN w.g.players : w.g.players[s] \in w.g.readyEdges
         THEN resetGame(w)
         ELSE w

checkAllReady(w) ==
    IF w.g.restarting THEN w
    ELSE IF w.g.gameState # "SCORING" \/ DOMAIN w.g.players = {} THEN w
    ELSE IF w.g.celebrationTimer > 0 THEN w
    ELSE IF \A s \in DOMAIN w.g.players : w.g.players[s] \in w.g.readyEdges
         THEN resetGame(w)
         ELSE w

\* terminateGame as it would be without the call of stop().
terminateGame_NoStop(w, reason) ==
    LET g2 == setGameState(w.g, "TERMINATED")
    IN W(g2, Append(w.out,
            [type |-> "gameTerminated",
             room |-> g2.roomId,
             game |-> g2.id,
             reason |-> reason,
             lastScore |-> g2.score,
             finalTime |-> Floor(g2.timeElapsed)]))

terminateGame(w, reason) ==
    LET g1 == setGameState(w.g, "TERMINATED")
        g2 == [g1 EXCEPT !.running = FALSE, !.interval = FALSE]
    IN W(g2, Append(w.out,
            [type |-> "gameTerminated",
             room |-> g2.roomId,
             game |-> g2.id,
             reason |-> reason,
             lastScore |-> g2.score,
             finalTime |-> Floor(g2.timeElapsed)]))

\* The scan for a free edge as it would be if it never advanced.
FirstFree_NoScan(occupiedIndices) == 0

FirstFree(occupiedIndices) ==
    CHOOSE e \in 0..Sides :
        /\ ~(e \in occupiedIndices /\ e < Sides)
        /\ \A d \in 0..(e - 1) : d \in occupiedIndices /\ d < Sides

\* addPlayer as it would be if it took the number of paddles as the new index.
addPlayer_NextIndex(w, socketId) ==
    IF Len(w.g.paddles) >= Sides THEN [g |-> w.g, out |-> w.out, ret |-> -1]
    ELSE LET edgeIndex == Len(w.g.paddles)
             g1 == [w.g EXCEPT
                      !.paddles = Append(@, Paddle(edgeIndex)),
                      !.players = (socketId :> edgeIndex) @@ @]
             b == broadcastState(W(g1, w.out))
         IN [g |-> b.g, out |-> b.out, ret |-> edgeIndex]

\* addPlayer: the game after the call, the messages, and the returned index.
addPlayer(w, socketId) ==
    IF Len(w.g.paddles) >= Sides THEN [g |-> w.g, out |-> w.out, ret |-> -1]
    ELSE LET edgeIndex == FirstFree(PaddleEdges(w.g))
         IN IF edgeIndex >= Sides THEN [g |-> w.g, out |-> w.out, ret |-> -1]
            ELSE LET g1 == [w.g EXCEPT
                              !.paddles = Append(@, Paddle(edgeIndex)),
                              !.players = (socketId :> edgeIndex) @@ @]
                     b == broadcastState(W(g1, w.out))
                 IN [g |-> b.g, out |-> b.out, ret |-> edgeIndex]

\* removePlayer as it would be without the call of checkAllReady.
removePlayer_NoCheck(w, socketId) ==
    IF socketId \notin DOMAIN w.g.players THEN w
    ELSE LET edgeIndex == w.g.players[socketId]
             g1 == [w.g EXCEPT
                      !.players = [s \in DOMAIN @ \ {socketId} |-> @[s]],
                      !.readyEdges = @ \ {edgeIndex},
                      !.paddles = SelectSeq(@, LAMBDA p : p.edgeIndex # edgeIndex)]
             w2 == broadcastState(W(g1, w.out))
         IN IF w2.g.running /\ w2.g.gameState = "PLAYING"
            THEN terminateGame(w2, "A player left the game")
            ELSE w2

\* removePlayer as it would be if every leave stopped the loop.
removePlayer_StopsLoop(w, socketId) ==
    IF socketId \notin DOMAIN w.g.players THEN w
    ELSE LET edgeIndex == w.g.players[socketId]
             g1 == [w.g EXCEPT
                      !.players = [s \in DOMAIN @ \ {socketId} |-> @[s]],
                      !.readyEdges = @ \ {edgeIndex},
                      !.paddles = SelectSeq(@, LAMBDA p : p.edgeIndex # edgeIndex)]
             w2 == checkAllReady(broadcastState(W(g1, w.out)))
         IN IF w2.g.running /\ w2.g.gameState = "PLAYING"
            THEN terminateGame(w2, "A player left the game")
            ELSE W([w2.g EXCEPT !.running = FALSE, !.interval = FALSE], w2.out)

removePlayer(w, socketId) ==
    IF socketId \notin DOMAIN w.g.players THEN w
    ELSE LET edgeIndex == w.g.players[socketId]
             g1 == [w.g EXCEPT
                      !.players = [s \in DOMAIN @ \ {socketId} |-> @[s]],
                      !.readyEdges = @ \ {edgeIndex},
                      !.paddles = SelectSeq(@, LAMBDA p : p.edgeIndex # edgeIndex)]
             w2 == checkAllReady(broadcastState(W(g1, w.out)))
         IN IF w2.g.running /\ w2.g.gameState = "PLAYING"
            THEN terminateGame(w2, "A player left the game")
            ELSE w2

\* toggleReady as it would be if it broadcast before looking up the player.
toggleReady_BroadcastFirst(w, socketId, isReady) ==
    IF socketId \notin DOMAIN w.g.players THEN broadcastState(w)
    ELSE LET edgeIndex == w.g.players[socketId]
             g1 == [w.g EXCEPT !.readyEdges =
                      IF isReady THEN @ \cup {edgeIndex} ELSE @ \ {edgeIndex}]
         IN checkAllReady(broadcastState(W(g1, w.out)))

\* toggleReady as it would be with the all-ready check made before the broadcast.
toggleReady_CheckFirst(w, socketId, isReady) ==
    IF socketId \notin DOMAIN w.g.players THEN w
    ELSE LET edgeIndex == w.g.players[socketId]
             g1 == [w.g EXCEPT !.readyEdges =
                      IF isReady THEN @ \cup {edgeIndex} ELSE @ \ {edgeIndex}]
         IN broadcastState(checkAllReady(W(g1, w.out)))

toggleReady(w, socketId, isReady) ==
    IF socketId \notin DOMAIN w.g.players THEN w
    ELSE LET edgeIndex == w.g.players[socketId]
             g1 == [w.g EXCEPT !.readyEdges =
                      IF isReady THEN @ \cup {edgeIndex} ELSE @ \ {edgeIndex}]
         IN checkAllReady(broadcastState(W(g1, w.out)))

handleInput(w, socketId, dir) ==
    IF w.g.gameState = "SCORING" THEN w
    ELSE IF socketId \notin DOMAIN w.g.players THEN w
    ELSE LET index == w.g.players[socketId]
         IN W([w.g EXCEPT !.paddles =
                 [i \in DOMAIN @ |->
                    IF @[i].edgeIndex = index
                      /\ \A j \in 1..(i - 1) : @[j].edgeIndex # index
                    THEN [@[i] EXCEPT !.moveDirection = dir]
                    ELSE @[i]]],
              w.out)

start(game) == [game EXCEPT !.running = TRUE, !.interval = TRUE]

stop(game) == [game EXCEPT !.running = FALSE, !.interval = FALSE]

onCelebrationEnd(w) == checkAllReady(w)

GoalMsg(game, edgeIndex) ==
    [type |-> "gameEvent",
     room |-> game.roomId,
     game |-> game.id,
     kind |-> "goal",
     score |-> game.lastScore,
     time |-> game.finalTime,
     edgeIndex |-> edgeIndex]

\* triggerScore as it would be without the call of startCelebration.
triggerScore_NoCelebration(w, finalScore, edgeIndex) ==
    LET g2 == [w.g EXCEPT !.lastScore = finalScore,
                          !.finalTime = Floor(w.g.timeElapsed)]
    IN W(g2, Append(w.out, GoalMsg(g2, edgeIndex)))

\* triggerScore as it would be without Math.floor.
triggerScore_NoFloor(w, finalScore, edgeIndex) ==
    LET g1 == startCelebration(w.g)
        g2 == [g1 EXCEPT !.lastScore = finalScore,
                         !.finalTime = g1.timeElapsed]
    IN W(g2, Append(w.out, GoalMsg(g2, edgeIndex)))

triggerScore(w, finalScore, edgeIndex) ==
    LET g1 == startCelebration(w.g)
        g2 == [g1 EXCEPT !.lastScore = finalScore,
                         !.finalTime = Floor(g1.timeElapsed)]
    IN W(g2, Append(w.out, GoalMsg(g2, edgeIndex)))

onGoal(w, edgeIndex) == triggerScore(w, w.g.score, edgeIndex)

BounceMsg(game, edgeIndex) ==
    [type |-> "gameEvent",
     room |-> game.roomId,
     game |-> game.id,
     kind |-> "bounce",
     score |-> 0,
     time |-> 0,
     edgeIndex |-> edgeIndex]

onPaddleHit(w, edgeIndex) ==
    W([w.g EXCEPT !.score = @ + 1], Append(w.out, BounceMsg(w.g, edgeIndex)))

onWallBounce(w, edgeIndex) ==
    W(w.g, Append(w.out, BounceMsg(w.g, edgeIndex)))

\* The physics outcomes of one step of the ball while PLAYING.
Outcomes ==
    {[kind |-> k, edgeIndex |-> e] :
        k \in {"paddleHit", "wallBounce", "goal"}, e \in 0..(Sides - 1)}
    \cup {[kind |-> "none", edgeIndex |-> 0]}

\* BaseGame.update(dt)
baseUpdate(w, dt, oc) ==
    CASE w.g.gameState = "COUNTDOWN" ->
            LET t == Max(0, w.g.countdownTimer - dt)
            IN W([w.g EXCEPT !.countdownTimer = t,
                             !.gameState = IF t = 0 THEN "PLAYING" ELSE @],
                 w.out)
      [] w.g.gameState = "PLAYING" ->
            LET w1 == W([w.g EXCEPT !.timeElapsed = @ + dt], w.out)
            IN CASE oc.kind = "goal" -> onGoal(w1, oc.edgeIndex)
                 [] oc.kind = "paddleHit" -> onPaddleHit(w1, oc.edgeIndex)
                 [] oc.kind = "wallBounce" -> onWallBounce(w1, oc.edgeIndex)
                 [] OTHER -> w1
      [] w.g.gameState = "SCORING" ->
            IF w.g.celebrationTimer > 0
            THEN LET t == Max(0, w.g.celebrationTimer - dt)
                     w1 == W([w.g EXCEPT !.celebrationTimer = t], w.out)
                 IN IF t = 0 THEN onCelebrationEnd(w1) ELSE w1
            ELSE w
      [] OTHER -> w

\* update() as it would be if a move consumed the pending direction.
update_ClearsDirection(w, dt, oc) ==
    LET w1 == baseUpdate(w, dt, oc)
    IN W([w1.g EXCEPT !.paddles =
             [i \in DOMAIN @ |->
                IF @[i].moveDirection # 0
                THEN [PaddleMove(@[i], @[i].moveDirection, dt)
                         EXCEPT !.moveDirection = 0]
                ELSE @[i]]],
         w1.out)

\* ServerGame.update(dt)
update(w, dt, oc) ==
    LET w1 == baseUpdate(w, dt, oc)
    IN W([w1.g EXCEPT !.paddles =
             [i \in DOMAIN @ |->
                IF @[i].moveDirection # 0
                THEN PaddleMove(@[i], @[i].moveDirection, dt)
                ELSE @[i]]],
         w1.out)

ClampDt(raw) == IF raw > DtClamp THEN DtClamp ELSE raw

\* The time since the last tick, as loop() measures it: below the clamp and
\* above it.
RawDts == {DtClamp - 1, DtClamp + 1}

\* ServerGame.loop(): fault names where the tick throws, if it does.
Faults == {"none", "update", "broadcast"}

\* loop() as it would be with a catch block that only logs.
loop_NoStop(w, raw, oc, fault) ==
    LET dt == ClampDt(raw)
    IN IF fault = "update" THEN w
       ELSE LET w1 == update(w, dt, oc)
            IN IF fault = "broadcast" THEN w1
               ELSE broadcastState(w1)

loop(w, raw, oc, fault) ==
    LET dt == ClampDt(raw)
    IN IF fault = "update" THEN W(stop(w.g), w.out)
       ELSE LET w1 == update(w, dt, oc)
            IN IF fault = "broadcast" THEN W(stop(w1.g), w1.out)
               ELSE broadcastState(w1)

\* ---------------------------------------------------------- the server
Socket(joinsLeft) ==
    [connected |-> TRUE, joinsLeft |-> joinsLeft, rooms |-> {}, handler |-> 0,
     onDisconnect |-> <<>>]

SocketGone ==
    [connected |-> FALSE, joinsLeft |-> 0, rooms |-> {}, handler |-> 0,
     onDisconnect |-> <<>>]

\* A game object that nothing can reach any more (no registry entry, no closure
\* of a connected socket, no armed interval) is garbage: it is kept as a husk.
Reachable(gs, reg, socks, id) ==
    \/ gs[id].interval
    \/ \E r \in DOMAIN reg : reg[r] = id
    \/ \E s \in DOMAIN socks :
          \/ socks[s].handler = id
          \/ \E i \in DOMAIN socks[s].onDisconnect : socks[s].onDisconnect[i].game = id

Husk(game) ==
    [ServerGame(game.id, game.roomId) EXCEPT
        !.gameState = game.gameState,
        !.countdownTimer = 0]

Collect(gs, reg, socks) ==
    [id \in DOMAIN gs |->
        IF Reachable(gs, reg, socks, id) THEN gs[id] ELSE Husk(gs[id])]

InitOver(budget, roomIds) ==
    /\ games = <<>>
    /\ registry = [r \in roomIds |-> 0]
    /\ sockets = [s \in DOMAIN budget |-> Socket(budget[s])]
    /\ out = <<>>
    /\ env = FlyProcess

Init == InitOver(JoinBudget, RoomIds)

\* The 'disconnect' listeners as they would be with `games.clear()` in place
\* of `games.delete(roomId)`.
RECURSIVE runDisconnect_ClearsAll(_, _, _)
runDisconnect_ClearsAll(st, socketId, hs) ==
    IF hs = <<>> THEN st
    ELSE LET h == Head(hs)
             w1 == removePlayer(W(st.games[h.game], st.out), socketId)
             empty == DOMAIN w1.g.players = {}
             g2 == IF empty THEN stop(w1.g) ELSE w1.g
             st2 == [games |-> [st.games EXCEPT ![h.game] = g2],
                     registry |-> IF empty
                                  THEN [r \in DOMAIN st.registry |-> 0]
                                  ELSE st.registry,
                     out |-> w1.out]
         IN runDisconnect_ClearsAll(st2, socketId, Tail(hs))

\* The 'disconnect' listeners as they would be without `game.stop()`.
RECURSIVE runDisconnect_NoStop(_, _, _)
runDisconnect_NoStop(st, socketId, hs) ==
    IF hs = <<>> THEN st
    ELSE LET h == Head(hs)
             w1 == removePlayer(W(st.games[h.game], st.out), socketId)
             empty == DOMAIN w1.g.players = {}
             st2 == [games |-> [st.games EXCEPT ![h.game] = w1.g],
                     registry |-> IF empty
                                  THEN [st.registry EXCEPT ![h.roomId] = 0]
                                  ELSE st.registry,
                     out |-> w1.out]
         IN runDisconnect_NoStop(st2, socketId, Tail(hs))

\* The 'disconnect' listeners of a socket, run in the order they were added.
RECURSIVE runDisconnect(_, _, _)
runDisconnect(st, socketId, hs) ==
    IF hs = <<>> THEN st
    ELSE LET h == Head(hs)
             w1 == removePlayer(W(st.games[h.game], st.out), socketId)
             empty == DOMAIN w1.g.players = {}
             g2 == IF empty THEN stop(w1.g) ELSE w1.g
             st2 == [games |-> [st.games EXCEPT ![h.game] = g2],
                     registry |-> IF empty
                                  THEN [st.registry EXCEPT ![h.roomId] = 0]
                                  ELSE st.registry,
                     out |-> w1.out]
         IN runDisconnect(st2, socketId, Tail(hs))

doDisconnect(socketId, o) ==
    LET st == runDisconnect([games |-> games, registry |-> registry, out |-> o],
                            socketId, sockets[socketId].onDisconnect)
        socks == [sockets EXCEPT ![socketId] = SocketGone]
    IN /\ games' = Collect(st.games, st.registry, socks)
       /\ registry' = st.registry
       /\ out' = st.out
       /\ sockets' = socks
       /\ UNCHANGED env

Disconnect(socketId) ==
    /\ sockets[socketId].connected
    /\ doDisconnect(socketId, <<>>)

\* The joinRoom handler as it would be without `socket.disconnect()`.
JoinRoom_NoDisconnect(socketId, roomId, requestedInstance) ==
    /\ sockets[socketId].connected
    /\ sockets[socketId].joinsLeft > 0
    /\ IF requestedInstance # NoInstance /\ requestedInstance # env.instanceId
          /\ env.isFlyInstance
       THEN /\ out' = <<[type |-> "error", to |-> socketId,
                         expectedInstance |-> requestedInstance]>>
            /\ sockets' = [sockets EXCEPT ![socketId].joinsLeft = @ - 1]
            /\ UNCHANGED <<games, registry, env>>
       ELSE LET create == registry[roomId] = 0
                id == IF create THEN Len(games) + 1 ELSE registry[roomId]
                game == IF create THEN start(ServerGame(id, roomId))
                        ELSE games[id]
                a == addPlayer(W(game, <<>>), socketId)
                reg == IF create THEN [registry EXCEPT ![roomId] = id]
                       ELSE registry
            IN /\ games' = IF create THEN Append(games, a.g)
                           ELSE [games EXCEPT ![id] = a.g]
               /\ registry' = reg
               /\ out' = Append(a.out,
                            [type |-> "init", to |-> socketId,
                             playerIndex |-> a.ret, sides |-> Sides,
                             instanceId |-> env.instanceId])
               /\ sockets' = [sockets EXCEPT ![socketId] =
                     [@ EXCEPT !.joinsLeft = @ - 1,
                               !.rooms = @ \cup {roomId},
                               !.handler = id,
                               !.onDisconnect =
                                   Append(@, [game |-> id, roomId |-> roomId])]]
               /\ UNCHANGED env

JoinRoom(socketId, roomId, requestedInstance) ==
    /\ sockets[socketId].connected
    /\ sockets[socketId].joinsLeft > 0
    /\ IF requestedInstance # NoInstance /\ requestedInstance # env.instanceId
          /\ env.isFlyInstance
       THEN doDisconnect(socketId,
                <<[type |-> "error", to |-> socketId,
                   expectedInstance |-> requestedInstance]>>)
       ELSE LET create == registry[roomId] = 0
                id == IF create THEN Len(games) + 1 ELSE registry[roomId]
                game == IF create THEN start(ServerGame(id, roomId))
                        ELSE games[id]
                a == addPlayer(W(game, <<>>), socketId)
                reg == IF create THEN [registry EXCEPT ![roomId] = id]
                       ELSE registry
            IN /\ games' = IF create THEN Append(games, a.g)
                           ELSE [games EXCEPT ![id] = a.g]
               /\ registry' = reg
               /\ out' = Append(a.out,
                            [type |-> "init", to |-> socketId,
                             playerIndex |-> a.ret, sides |-> Sides,
                             instanceId |-> env.instanceId])
               /\ sockets' = [sockets EXCEPT ![socketId] =
                     [@ EXCEPT !.joinsLeft = @ - 1,
                               !.rooms = @ \cup {roomId},
                               !.handler = id,
                               !.onDisconnect =
                                   Append(@, [game |-> id, roomId |-> roomId])]]
               /\ UNCHANGED env

Input(socketId, dir) ==
    /\ sockets[socketId].connected
    /\ sockets[socketId].handler # 0
    /\ LET id == sockets[socketId].handler
           w1 == handleInput(W(games[id], <<>>), socketId, dir)
       IN /\ games' = Collect([games EXCEPT ![id] = w1.g], registry, sockets)
          /\ out' = w1.out
    /\ UNCHANGED <<registry, sockets, env>>

PlayerReady(socketId, ready) ==
    /\ sockets[socketId].connected
    /\ sockets[socketId].handler # 0
    /\ LET id == sockets[socketId].handler
           w1 == toggleReady(W(games[id], <<>>), socketId, ready)
       IN /\ games' = Collect([games EXCEPT ![id] = w1.g], registry, sockets)
          /\ out' = w1.out
    /\ UNCHANGED <<registry, sockets, env>>

\* One firing of a game's interval timer.
Tick(id, raw, oc, fault) ==
    /\ games[id].interval
    /\ games[id].gameState = "PLAYING" =>
          games[id].timeElapsed + ClampDt(raw) <= MaxTime
    /\ games[id].gameState # "PLAYING" => oc.kind = "none"
    /\ oc.kind = "paddleHit" => oc.edgeIndex \in PaddleEdges(games[id])
    /\ oc.kind = "wallBounce" => oc.edgeIndex \notin PaddleEdges(games[id])
    /\ fault = "update" => (raw = DtClamp - 1 /\ oc.kind = "none")
    /\ UNCHANGED <<registry, sockets, env>>
    /\ LET w1 == loop(W(games[id], <<>>), raw, oc, fault)
       IN /\ out' = w1.out
          /\ games' = Collect([games EXCEPT ![id] = w1.g], registry, sockets)

Next ==
    \/ \E s \in DOMAIN sockets, r \in DOMAIN registry, i \in Instances :
          JoinRoom(s, r, i)
    \/ \E s \in DOMAIN sockets : Disconnect(s)
    \/ \E s \in DOMAIN sockets, d \in KeyDirs : Input(s, d)
    \/ \E s \in DOMAIN sockets, b \in BOOLEAN : PlayerReady(s, b)
    \/ \E id \in DOMAIN games, raw \in RawDts, oc \in Outcomes, f \in Faults :
          Tick(id, raw, oc, f)

Spec == Init /\ [][Next]_vars

\* The rooms' life cycle with more connections: joins (repeated ones too),
\* leaves, ready toggles and ticks of a full clamp interval, with or without a
\* goal on edge 0 and with or without a failing broadcast; no key input.
RoomOutcomes ==
    {[kind |-> "none", edgeIndex |-> 0], [kind |-> "goal", edgeIndex |-> 0]}

RoomNext ==
    \/ \E s \in DOMAIN sockets, r \in DOMAIN registry, i \in Instances :
          JoinRoom(s, r, i)
    \/ \E s \in DOMAIN sockets : Disconnect(s)
    \/ \E s \in DOMAIN sockets, b \in BOOLEAN : PlayerReady(s, b)
    \/ \E id \in DOMAIN games, oc \in RoomOutcomes, f \in {"none", "broadcast"} :
          Tick(id, DtClamp + 1, oc, f)

RoomSpec == InitOver(RoomBudget, RoomIds) /\ [][RoomNext]_vars

\* One room with a connection too many: joins, leaves, input events with dir
\* in and out of range, ready toggles, and ticks of a full clamp interval with
\* or without a goal on edge 0.
GuestNext ==
    \/ \E s \in DOMAIN sockets, r \in DOMAIN registry : JoinRoom(s, r, NoInstance)
    \/ \E s \in DOMAIN sockets : Disconnect(s)
    \/ \E s \in DOMAIN sockets, d \in SentDirs : Input(s, d)
    \/ \E s \in DOMAIN sockets, b \in BOOLEAN : PlayerReady(s, b)
    \/ \E id \in DOMAIN games, oc \in RoomOutcomes :
          Tick(id, DtClamp + 1, oc, "none")

GuestSpec == InitOver(GuestBudget, RoomIds) /\ [][GuestNext]_vars

\* Two rooms side by side: joins, leaves, a key press, ready toggles, ticks of
\* a full clamp interval with or without a goal on edge 0 and with or without
\* a failing broadcast, and ticks that fail in update.
HallNext ==
    \/ \E s \in DOMAIN sockets, r \in DOMAIN registry : JoinRoom(s, r, NoInstance)
    \/ \E s \in DOMAIN sockets : Disconnect(s)
    \/ \E s \in DOMAIN sockets : Input(s, 1)
    \/ \E s \in DOMAIN sockets : PlayerReady(s, TRUE)
    \/ \E id \in DOMAIN games, oc \in RoomOutcomes, f \in {"none", "broadcast"} :
          Tick(id, DtClamp + 1, oc, f)
    \/ \E id \in DOMAIN games :
          Tick(id, DtClamp - 1, [kind |-> "none", edgeIndex |-> 0], "update")

HallSpec == InitOver(JoinBudget, HallRooms) /\ [][HallNext]_vars

\* ---------------------------------------------------- instance routing
\* An HTTP request or upgrade as the routing code reads it: the path, the
\* 'instance' query parameter, the 'x-fly-instance' header, and whether
\* `new URL(req.url, host)` succeeds.
Requests ==
    [path : {"/socket.io/", "/api/instance"},
     query : Instances,
     header : Instances,
     urlOk : BOOLEAN]

Events == {"request", "upgrade"}

\* a || b on instance names
Or(a, b) == IF a # NoInstance THEN a ELSE b

Replay(targetInstance, isUpgrade) ==
    [type |-> "http", status |-> 307, flyReplay |-> targetInstance,
     rawSocket |-> isUpgrade]

\* handleFlyInstanceRouting as it would be if it left upgrades alone.
handleFlyInstanceRouting_RequestsOnly(req, isUpgrade) ==
    IF ~env.isFlyInstance THEN [handled |-> FALSE, out |-> <<>>]
    ELSE IF ~req.urlOk THEN [handled |-> FALSE, out |-> <<>>]
    ELSE IF req.path # "/socket.io/" THEN [handled |-> FALSE, out |-> <<>>]
    ELSE LET targetInstance == Or(req.query, req.header)
         IN IF targetInstance # NoInstance /\ targetInstance # env.instanceId
               /\ ~isUpgrade
            THEN [handled |-> TRUE, out |-> <<Replay(targetInstance, isUpgrade)>>]
            ELSE [handled |-> FALSE, out |-> <<>>]

handleFlyInstanceRouting(req, isUpgrade) ==
    IF ~env.isFlyInstance THEN [handled |-> FALSE, out |-> <<>>]
    ELSE IF ~req.urlOk THEN [handled |-> FALSE, out |-> <<>>]
    ELSE IF req.path # "/socket.io/" THEN [handled |-> FALSE, out |-> <<>>]
    ELSE LET targetInstance == Or(req.query, req.header)
         IN IF targetInstance # NoInstance /\ targetInstance # env.instanceId
            THEN [handled |-> TRUE, out |-> <<Replay(targetInstance, isUpgrade)>>]
            ELSE [handled |-> FALSE, out |-> <<>>]

\* allowRequest: TRUE when the callback is called with (null, true).
allowRequest(req) ==
    LET targetInstance == Or(req.query, req.header)
    IN ~(targetInstance # NoInstance /\ targetInstance # env.instanceId
           /\ env.isFlyInstance)

\* What Socket.IO and Express do with an event that reaches them.
originalEmit(req) ==
    IF req.path # "/socket.io/"
    THEN [connection |-> FALSE, out |-> <<[type |-> "express", path |-> req.path]>>]
    ELSE IF allowRequest(req)
         THEN [connection |-> TRUE, out |-> <<[type |-> "connection"]>>]
         ELSE [connection |-> FALSE,
               out |-> <<[type |-> "refused", message |-> "Wrong instance"]>>]

\* httpServer.emit, patched on Fly.io
httpServerEmit(event, req) ==
    IF env.isFlyInstance
    THEN LET h == handleFlyInstanceRouting(req, event = "upgrade")
         IN IF h.handled THEN [connection |-> FALSE, out |-> h.out]
            ELSE originalEmit(req)
    ELSE originalEmit(req)

\* A client that is not connected yet sends a request or an upgrade; the
\* 'connection' handler runs only if the event gets through.
Connect(socketId, event, req) ==
    /\ ~sockets[socketId].connected
    /\ sockets[socketId].joinsLeft > 0
    /\ LET r == httpServerEmit(event, req)
       IN /\ out' = r.out
          /\ sockets' = [sockets EXCEPT ![socketId].connected = r.connection]
    /\ UNCHANGED <<games, registry, env>>

RouterInit ==
    /\ games = <<>>
    /\ registry = [r \in RoomIds |-> 0]
    /\ sockets = [s \in DOMAIN RouterBudget |->
                     [Socket(RouterBudget[s]) EXCEPT !.connected = FALSE]]
    /\ out = <<>>
    /\ env \in Processes

RouterNext ==
    \/ \E s \in DOMAIN sockets, e \in Events, req \in Requests : Connect(s, e, req)
    \/ \E s \in DOMAIN sockets, r \in DOMAIN registry, i \in Instances :
          JoinRoom(s, r, i)
    \/ \E s \in DOMAIN sockets : Disconnect(s)
    \/ \E s \in DOMAIN sockets : PlayerReady(s, TRUE)
    \/ \E id \in DOMAIN games, oc \in RoomOutcomes :
          Tick(id, DtClamp + 1, oc, "none")

RouterSpec == RouterInit /\ [][RouterNext]_vars

\* ------------------------------------------------------ reading `out`
StateMsgs(o, id) ==
    SelectSeq(o, LAMBDA m : m.type = "gameState" /\ m.game = id)

TerminatedMsgs(o, id) ==
    SelectSeq(o, LAMBDA m : m.type = "gameTerminated" /\ m.game = id)

GoalMsgs(o, id) ==
    SelectSeq(o, LAMBDA m : m.type = "gameEvent" /\ m.game = id /\ m.kind = "goal")

\* The step removes connected player s from game id.
Leaves(s, id) ==
    /\ s \in DOMAIN games[id].players
    /\ s \notin DOMAIN games'[id].players

AllReady(players, readyEdges) ==
    \A s \in DOMAIN players : players[s] \in readyEdges

\* ---------------------------------------------------------------- C1
\* C1: a connected player removed while the phase is PLAYING leaves the game
\* TERMINATED with exactly one gameTerminated broadcast in that step, whatever
\* the state of the tick loop, and gameTerminated is emitted by no step that
\* does not start in PLAYING (so never a second time).
C1_OneTerminatedOnLeave ==
    [][\A id \in DOMAIN games :
          /\ (games[id].gameState = "PLAYING"
                /\ \E s \in DOMAIN sockets : Leaves(s, id))
             => /\ games'[id].gameState = "TERMINATED"
                /\ Len(TerminatedMsgs(out', id)) = 1
          /\ Len(TerminatedMsgs(out', id)) > 0
             => /\ games[id].gameState = "PLAYING"
                /\ Len(TerminatedMsgs(out', id)) = 1]_vars

\* ---------------------------------------------------------------- C2
\* C2: once a game is TERMINATED (it has broadcast gameTerminated), no later
\* step broadcasts a gameState message for it.
C2_NoStateAfterTerminated ==
    [][\A id \in DOMAIN games :
          games[id].gameState = "TERMINATED"
             => Len(StateMsgs(out', id)) = 0]_vars

\* The game a socket's input and playerReady listeners are bound to.
HandlerGame(s) == games[sockets[s].handler]

\* Socket s, a player of its listeners' game, sends playerReady(b) in this step.
Toggles(s, b) ==
    /\ PlayerReady(s, b)
    /\ s \in DOMAIN HandlerGame(s).players

\* ---------------------------------------------------------------- C3
\* C3: a playerReady toggle received in SCORING while celebrationTimer > 0
\* leaves the phase SCORING, whoever sends it and whatever the ready set is.
C3_NoRestartWhileCelebrating ==
    [][\A s \in DOMAIN sockets, b \in BOOLEAN :
          (/\ Toggles(s, b)
           /\ HandlerGame(s).gameState = "SCORING"
           /\ HandlerGame(s).celebrationTimer > 0)
          => games'[sockets[s].handler].gameState = "SCORING"]_vars

\* Every player has toggled ready during the celebration and the phase is
\* still SCORING.
C3_Witness ==
    \E id \in DOMAIN games :
        /\ games[id].gameState = "SCORING"
        /\ games[id].celebrationTimer > 0
        /\ Cardinality(DOMAIN games[id].players) = 2
        /\ AllReady(games[id].players, games[id].readyEdges)
        /\ Len(StateMsgs(out, id)) = 1
        /\ StateMsgs(out, id)[1].readyEdges = PlayerEdges(games[id])

\* ---------------------------------------------------------------- C4
\* C4: a playerReady toggle received in SCORING while celebrationTimer > 0
\* leaves the ready-edge set unchanged.
C4_ToggleIgnoredWhileCelebrating ==
    [][\A s \in DOMAIN sockets, b \in BOOLEAN :
          (/\ Toggles(s, b)
           /\ HandlerGame(s).gameState = "SCORING"
           /\ HandlerGame(s).celebrationTimer > 0)
          => games'[sockets[s].handler].readyEdges = HandlerGame(s).readyEdges]_vars

\* ---------------------------------------------------------------- C5
\* C5: a playerReady toggle received in COUNTDOWN, PLAYING or TERMINATED leaves
\* the ready-edge set unchanged, and the ready-edge set is empty in the step
\* in which a goal moves the game into SCORING.
C5_ToggleOnlyInScoring ==
    [][/\ \A s \in DOMAIN sockets, b \in BOOLEAN :
             (/\ Toggles(s, b)
              /\ HandlerGame(s).gameState \in {"COUNTDOWN", "PLAYING", "TERMINATED"})
             => games'[sockets[s].handler].readyEdges = HandlerGame(s).readyEdges
       /\ \A id \in DOMAIN games :
             Len(GoalMsgs(out', id)) > 0 => games'[id].readyEdges = {}]_vars

\* ---------------------------------------------------------------- C6
\* C6: an input event received in COUNTDOWN, SCORING or TERMINATED leaves
\* every paddle's moveDirection and position unchanged.
C6_InputOnlyInPlaying ==
    [][\A s \in DOMAIN sockets, d \in KeyDirs :
          (/\ Input(s, d)
           /\ HandlerGame(s).gameState \in {"COUNTDOWN", "SCORING", "TERMINATED"})
          => games'[sockets[s].handler].paddles = HandlerGame(s).paddles]_vars

\* ---------------------------------------------------------------- C7
\* C7: in SCORING with celebrationTimer == 0 (or reaching 0 in this tick), an
\* evaluation of the all-ready condition at which at least one player is
\* connected and every connected player's edge is ready -- after a toggle,
\* after a leave, at celebration end -- ends the step in COUNTDOWN with an
\* empty ready-edge set.
ReadyAfterToggle(game, s, b) ==
    IF b THEN game.readyEdges \cup {game.players[s]}
    ELSE game.readyEdges \ {game.players[s]}

PlayersWithout(game, s) ==
    [x \in DOMAIN game.players \ {s} |-> game.players[x]]

Restarted(id) ==
    /\ games'[id].gameState = "COUNTDOWN"
    /\ games'[id].readyEdges = {}

C7_AllReadyRestarts ==
    [][/\ \A s \in DOMAIN sockets, b \in BOOLEAN :
             (/\ Toggles(s, b)
              /\ HandlerGame(s).gameState = "SCORING"
              /\ HandlerGame(s).celebrationTimer = 0
              /\ AllReady(HandlerGame(s).players,
                          ReadyAfterToggle(HandlerGame(s), s, b)))
             => Restarted(sockets[s].handler)
       /\ \A id \in DOMAIN games, s \in DOMAIN sockets :
             (/\ Leaves(s, id)
              /\ games[id].gameState = "SCORING"
              /\ games[id].celebrationTimer = 0
              /\ DOMAIN PlayersWithout(games[id], s) # {}
              /\ AllReady(PlayersWithout(games[id], s),
                          games[id].readyEdges \ {games[id].players[s]}))
             => Restarted(id)
       /\ \A id \in DOMAIN games, raw \in RawDts, f \in Faults \ {"update"} :
             (/\ games[id].gameState = "SCORING"
              /\ games[id].celebrationTimer > 0
              /\ ClampDt(raw) >= games[id].celebrationTimer
              /\ DOMAIN games[id].players # {}
              /\ AllReady(games[id].players, games[id].readyEdges)
              /\ Tick(id, raw, [kind |-> "none", edgeIndex |-> 0], f))
             => Restarted(id)]_vars

\* A restart at celebration end: both players had readied up during the
\* celebration, and the tick that brings the timer to zero restarts the game.
C7_Witness ==
    \E id \in DOMAIN games :
        /\ games[id].gameState = "COUNTDOWN"
        /\ games[id].readyEdges = {}
        /\ games[id].countdownTimer = COUNTDOWN_DURATION
        /\ games[id].interval
        /\ Cardinality(DOMAIN games[id].players) = 2
        /\ Len(StateMsgs(out, id)) = 2
        /\ StateMsgs(out, id)[1].gameState = "COUNTDOWN"
        /\ StateMsgs(out, id)[2].gameState = "COUNTDOWN"

\* ---------------------------------------------------------------- C8
\* The toggle that makes every occupied edge ready after the celebration.
LastReady(s) ==
    /\ Toggles(s, TRUE)
    /\ HandlerGame(s).gameState = "SCORING"
    /\ HandlerGame(s).celebrationTimer = 0
    /\ HandlerGame(s).players[s] \notin HandlerGame(s).readyEdges
    /\ AllReady(HandlerGame(s).players, ReadyAfterToggle(HandlerGame(s), s, TRUE))

\* C8 as stated: after the last not-yet-ready player toggles ready, the next
\* gameState broadcast of the game shows COUNTDOWN and no ready edges.
C8_NextBroadcastIsCountdown ==
    [][\A s \in DOMAIN sockets :
          LastReady(s)
          => LET msgs == StateMsgs(out', sockets[s].handler)
             IN /\ Len(msgs) > 0
                /\ msgs[1].gameState = "COUNTDOWN"
                /\ msgs[1].readyEdges = {}]_vars

\* C8 (amended): that toggle broadcasts two gameState messages: the first still
\* shows SCORING with every occupied edge ready, the second, which is the last
\* one of the step, shows COUNTDOWN and no ready edges.
C8_RestartBroadcastFollowsReadyBroadcast ==
    [][\A s \in DOMAIN sockets :
          LastReady(s)
          => LET msgs == StateMsgs(out', sockets[s].handler)
             IN /\ Len(msgs) = 2
                /\ msgs[1].gameState = "SCORING"
                /\ msgs[1].readyEdges = PlayerEdges(HandlerGame(s))
                /\ msgs[2].gameState = "COUNTDOWN"
                /\ msgs[2].readyEdges = {}]_vars

C8_Witness ==
    \E id \in DOMAIN games :
        /\ Len(out) = 2
        /\ Len(StateMsgs(out, id)) = 2
        /\ out[1].gameState = "SCORING"
        /\ out[1].celebrationTimer = 0
        /\ Cardinality(out[1].readyEdges) = 2
        /\ out[2].gameState = "COUNTDOWN"
        /\ out[2].readyEdges = {}

ScoringMsg(m, s, ft) ==
    /\ m.gameState = "SCORING"
    /\ m.lastScore = s
    /\ m.finalTime = ft

C10_ScoreAndTimeBroadcast ==
    [][\A id \in DOMAIN games :
          LET msgs == StateMsgs(out', id)
          IN /\ \A raw \in RawDts, e \in 0..(Sides - 1), f \in Faults \ {"update"} :
                   (/\ games[id].gameState = "PLAYING"
                    /\ Tick(id, raw, [kind |-> "goal", edgeIndex |-> e], f))
                   => LET s == games[id].score
                          t == games[id].timeElapsed + ClampDt(raw)
                      IN /\ Len(GoalMsgs(out', id)) = 1
                         /\ GoalMsgs(out', id)[1].score = s
                         /\ GoalMsgs(out', id)[1].time = t \div UnitsPerSecond
                         /\ GoalMsgs(out', id)[1].edgeIndex = e
                         /\ games'[id].lastScore = s
                         /\ games'[id].finalTime = t \div UnitsPerSecond
                         /\ \A i \in DOMAIN msgs :
                               ScoringMsg(msgs[i], s, t \div UnitsPerSecond)
             /\ games[id].gameState = "SCORING"
                   => /\ \A i \in DOMAIN msgs :
                            \/ ScoringMsg(msgs[i], games[id].lastScore,
                                          games[id].finalTime)
                            \/ /\ msgs[i].gameState = "COUNTDOWN"
                               /\ games'[id].gameState = "COUNTDOWN"
                               /\ \A j \in i..Len(msgs) :
                                     msgs[j].gameState = "COUNTDOWN"
                      /\ (games'[id].gameState = "SCORING"
                            /\ Reachable(games', registry', sockets', id))
                            => /\ games'[id].lastScore = games[id].lastScore
                               /\ games'[id].finalTime = games[id].finalTime]_vars

\* A broadcast after the goal tick, of a goal conceded at score 1 after 2 units
\* (one second) of play: lastScore 1, finalTime 1.
C10_Witness ==
    \E id \in DOMAIN games :
        /\ games[id].gameState = "SCORING"
        /\ games[id].celebrationTimer < CELEBRATION_DURATION
        /\ games[id].timeElapsed = 2
        /\ Len(StateMsgs(out, id)) = 1
        /\ StateMsgs(out, id)[1].gameState = "SCORING"
        /\ StateMsgs(out, id)[1].lastScore = 1
        /\ StateMsgs(out, id)[1].finalTime = 1

\* --------------------------------------------------------------- C11
\* C11: the step that removes the last player of a game, in whatever phase,
\* leaves the game's room id without a registry entry and the game's tick loop
\* stopped; and a game without players has no armed interval, broadcasts no
\* gameState and gets no player back.
C11_LastLeaveEndsRoom ==
    [][\A id \in DOMAIN games :
          /\ (DOMAIN games[id].players # {} /\ DOMAIN games'[id].players = {})
             => /\ registry'[games[id].roomId] = 0
                /\ ~games'[id].interval
                /\ ~games'[id].running
          /\ DOMAIN games[id].players = {}
             => /\ ~games[id].interval
                /\ Len(StateMsgs(out', id)) = 0
                /\ DOMAIN games'[id].players = {}]_vars

\* The last player has just left a game that was already TERMINATED: the leave
\* broadcast one last gameState and no gameTerminated, and the room is gone.
C11_Witness ==
    \E id \in DOMAIN games :
        /\ games[id].gameState = "TERMINATED"
        /\ DOMAIN games[id].players = {}
        /\ ~games[id].interval
        /\ registry[games[id].roomId] = 0
        /\ Len(TerminatedMsgs(out, id)) = 0
        /\ Len(StateMsgs(out, id)) = 1
        /\ StateMsgs(out, id)[1].gameState = "TERMINATED"

\* --------------------------------------------------------------- C12
\* C12: in every reachable state, a game whose tick loop is running is the
\* registry's entry for its room id.
C12_TickNeverOutlivesRoom ==
    \A id \in DOMAIN games :
        games[id].interval => registry[games[id].roomId] = id

\* --------------------------------------------------------------- C13
\* C13: a step constructs a game only for a room id that has no registry
\* entry, and no two games with running tick loops carry the same room id.
C13_OneRunningGamePerRoom ==
    [][/\ Len(games') > Len(games)
          => registry[games'[Len(games')].roomId] = 0
       /\ \A i, j \in DOMAIN games' :
             (i # j /\ games'[i].interval /\ games'[j].interval)
             => games'[i].roomId # games'[j].roomId]_vars

\* --------------------------------------------------------------- C14
\* The instance tags with which a joinRoom reaches addPlayer.
Admitted ==
    {i \in Instances :
        ~(i # NoInstance /\ i # env.instanceId /\ env.isFlyInstance)}

\* The edges that carry a paddle in room r's game before the step.
OccupiedBefore(r) ==
    IF registry[r] = 0 THEN {} ELSE PaddleEdges(games[registry[r]])

LowestFree(occ) ==
    CHOOSE e \in (0..(Sides - 1)) \ occ : \A d \in (0..(Sides - 1)) \ occ : e <= d

Rejected(s) ==
    /\ sockets[s].connected
    /\ sockets[s].onDisconnect # <<>>
    /\ \A k \in DOMAIN sockets[s].onDisconnect :
          s \notin DOMAIN games[sockets[s].onDisconnect[k].game].players

\* Every game object still in use is as it was before the step.
GamesUntouched ==
    \A id \in DOMAIN games :
        Reachable(games', registry', sockets', id) => games'[id] = games[id]

\* C15: a joinRoom on a room whose edges are all taken answers the joiner with
\* init{playerIndex: -1} and nothing else, and leaves every game and the
\* registry as they were; and an input, playerReady or disconnect event of a
\* socket whose joins were rejected changes no game and no registry entry.
C15_RejectedJoinMutatesNothing ==
    [][\A s \in DOMAIN sockets :
          /\ \A r \in DOMAIN registry, i \in Admitted :
                (/\ Cardinality(OccupiedBefore(r)) = Sides
                 /\ JoinRoom(s, r, i))
                => /\ Len(out') = 1
                   /\ out'[1].type = "init"
                   /\ out'[1].playerIndex = -1
                   /\ games' = games
                   /\ registry' = registry
          /\ (/\ Rejected(s)
              /\ \/ Disconnect(s)
                 \/ \E b \in BOOLEAN : PlayerReady(s, b)
                 \/ \E d \in KeyDirs : Input(s, d))
             => /\ GamesUntouched
                /\ registry' = registry]_vars

\* --------------------------------------------------------------- C16
\* C16: in every reachable state of every game, distinct connection ids hold
\* distinct edges, every held edge lies in 0..sides-1, and no edge carries
\* more than one paddle.
C16_EdgesUnique ==
    \A id \in DOMAIN games :
        /\ \A s, u \in DOMAIN games[id].players :
              s # u => games[id].players[s] # games[id].players[u]
        /\ \A s \in DOMAIN games[id].players :
              games[id].players[s] \in 0..(Sides - 1)
        /\ \A i, j \in DOMAIN games[id].paddles :
              i # j => games[id].paddles[i].edgeIndex # games[id].paddles[j].edgeIndex

\* A full room whose two players have each sent a second joinRoom, both
\* rejected: still two players, one on each edge.
C16_Witness ==
    \E id \in DOMAIN games :
        /\ DOMAIN games[id].players = {"a", "c"}
        /\ games[id].players["a"] = 0
        /\ games[id].players["c"] = 1
        /\ sockets["a"].joinsLeft = 0
        /\ sockets["c"].joinsLeft = 0
        /\ Len(games[id].paddles) = 2

\* --------------------------------------------------------------- C17
\* C17: in every reachable state of every game, the ready-edge set is a subset
\* of the edges held by the connected players.
C17_ReadySubsetOfHeldEdges ==
    \A id \in DOMAIN games : games[id].readyEdges \subseteq PlayerEdges(games[id])

\* --------------------------------------------------------------- C18
\* C18: the step that removes a connected player from a game leaves no player
\* entry and no paddle on the edge it held and takes that edge out of the
\* ready-edge set; and when the game was in SCORING with celebrationTimer == 0
\* and the players that remain are at least one and all ready, the same step
\* ends in COUNTDOWN with an empty ready-edge set.
C18_LeaveFreesEdgeAndRechecks ==
    [][\A id \in DOMAIN games, s \in DOMAIN sockets :
          Leaves(s, id)
          => LET e == games[id].players[s]
             IN /\ e \notin PlayerEdges(games'[id])
                /\ e \notin PaddleEdges(games'[id])
                /\ e \notin games'[id].readyEdges
                /\ (/\ games[id].gameState = "SCORING"
                    /\ games[id].celebrationTimer = 0
                    /\ DOMAIN PlayersWithout(games[id], s) # {}
                    /\ AllReady(PlayersWithout(games[id], s),
                                games[id].readyEdges \ {e}))
                   => Restarted(id)]_vars

\* A player was dropped by a joinRoom for another instance while the game
\* waited in SCORING for that player only: the leave broadcast the remaining,
\* ready player in SCORING and then the restart.
C18_Witness ==
    \E id \in DOMAIN games :
        /\ Len(out) = 3
        /\ out[1].type = "error"
        /\ Len(StateMsgs(out, id)) = 2
        /\ out[2].gameState = "SCORING"
        /\ out[2].celebrationTimer = 0
        /\ Cardinality(out[2].readyEdges) = 1
        /\ Len(out[2].paddles) = 1
        /\ out[3].gameState = "COUNTDOWN"
        /\ games[id].gameState = "COUNTDOWN"
        /\ Cardinality(DOMAIN games[id].players) = 1

\* --------------------------------------------------------------- C19
\* The target instance of a request: the query parameter, else the header.
Target(req) == Or(req.query, req.header)

SocketIoRequests == {req \in Requests : req.path = "/socket.io/"}

\* The event of a not yet connected client did not get it connected and
\* touched no game and no registry entry.
NotAdmitted(s) ==
    /\ ~sockets'[s].connected
    /\ games' = games
    /\ registry' = registry

\* C19 as stated: every socket.io request or upgrade whose target instance is
\* given and differs from the instance id is answered with a 307 carrying
\* fly-replay for the target and nothing else, and connects nobody.
C19_MismatchAlwaysRedirected ==
    [][\A s \in DOMAIN sockets, e \in Events, req \in SocketIoRequests :
          (/\ Target(req) # NoInstance
           /\ Target(req) # env.instanceId
           /\ Connect(s, e, req))
          => /\ out' = <<Replay(Target(req), e = "upgrade")>>
             /\ NotAdmitted(s)]_vars

\* C19 (amended): on a process started on Fly.io, such a request or upgrade is
\* answered with the 307 and not propagated when its URL parses, and is
\* propagated and refused by allowRequest when it does not; in both cases
\* nobody is connected and no room is touched. A process started without
\* FLY_MACHINE_ID makes no check and accepts the connection.
C19_FlyMismatchRedirectedOrRefused ==
    [][\A s \in DOMAIN sockets, e \in Events, req \in SocketIoRequests :
          (/\ Target(req) # NoInstance
           /\ Target(req) # env.instanceId
           /\ Connect(s, e, req))
          => IF env.isFlyInstance
             THEN /\ out' = IF req.urlOk
                            THEN <<Replay(Target(req), e = "upgrade")>>
                            ELSE <<[type |-> "refused", message |-> "Wrong instance"]>>
                  /\ NotAdmitted(s)
             ELSE /\ out' = <<[type |-> "connection"]>>
                  /\ sockets'[s].connected]_vars

\* On Fly.io instance A, with a room in play, an upgrade for instance B has
\* just been answered with the replay, and its sender is not connected.
C19_Witness ==
    /\ env = FlyProcess
    /\ out = <<Replay("B", TRUE)>>
    /\ \E s \in DOMAIN sockets : ~sockets[s].connected /\ sockets[s].joinsLeft > 0
    /\ \E id \in DOMAIN games :
          /\ registry[games[id].roomId] = id
          /\ games[id].interval
          /\ DOMAIN games[id].players # {}

\* --------------------------------------------------------------- C20
\* The joinRoom step of s constructs no game, enters no room id in the
\* registry, adds no player, does not put s in a socket.io room, sends no
\* init, and ends with s disconnected after an error naming instance i.
JoinRefused(s, i) ==
    /\ Len(games') = Len(games)
    /\ \A r \in DOMAIN registry : registry[r] = 0 => registry'[r] = 0
    /\ \A id \in DOMAIN games :
          DOMAIN games'[id].players \subseteq DOMAIN games[id].players
    /\ sockets'[s].rooms \subseteq sockets[s].rooms
    /\ \A k \in DOMAIN out' : out'[k].type # "init"
    /\ Len(out') > 0
    /\ out'[1] = [type |-> "error", to |-> s, expectedInstance |-> i]
    /\ ~sockets'[s].connected

\* C20 as stated: a joinRoom tagged for an instance other than the one the
\* server runs as is refused in that way.
C20_TaggedJoinNeverAdmitted ==
    [][\A s \in DOMAIN sockets, r \in DOMAIN registry, i \in Instances :
          (/\ i # NoInstance
           /\ i # env.instanceId
           /\ JoinRoom(s, r, i))
          => JoinRefused(s, i)]_vars

\* C20 (amended): on a process started on Fly.io it is refused in that way; a
\* process started without FLY_MACHINE_ID ignores the tag and handles the
\* joinRoom like an untagged one, answering init with its own instance id.
C20_FlyTaggedJoinNeverAdmitted ==
    [][\A s \in DOMAIN sockets, r \in DOMAIN registry, i \in Instances :
          (/\ i # NoInstance
           /\ i # env.instanceId
           /\ JoinRoom(s, r, i))
          => IF env.isFlyInstance
             THEN JoinRefused(s, i)
             ELSE /\ r \in sockets'[s].rooms
                  /\ registry'[r] # 0
                  /\ out'[Len(out')].type = "init"
                  /\ out'[Len(out')].instanceId = env.instanceId
                  /\ sockets'[s].connected]_vars

\* On Fly.io instance A, a connected socket that was in no room has just sent
\* joinRoom tagged for B while another socket's room is in play: it got the
\* error and is gone, and the room has the one player it had.
C20_Witness ==
    /\ env = FlyProcess
    /\ Len(out) = 1
    /\ out[1].type = "error"
    /\ out[1].expectedInstance = "B"
    /\ ~sockets[out[1].to].connected
    /\ sockets[out[1].to].joinsLeft = 0
    /\ \E id \in DOMAIN games :
          /\ registry[games[id].roomId] = id
          /\ Cardinality(DOMAIN games[id].players) = 1
          /\ out[1].to \notin DOMAIN games[id].players

\* --------------------------------------------------------------- C21
\* C21: a tick that throws, in update or in the broadcast, leaves its game
\* with running false and the interval cleared, and leaves every other game,
\* the registry and the sockets as they were; and a cleared interval is never
\* armed again, so the game has no further tick.
C21_FaultStopsOnlyItsRoom ==
    [][\A id \in DOMAIN games :
          /\ \A raw \in RawDts, oc \in Outcomes, f \in Faults \ {"none"} :
                (/\ games[id].interval
                 /\ Tick(id, raw, oc, f))
                => /\ ~games'[id].running
                   /\ ~games'[id].interval
                   /\ \A j \in DOMAIN games \ {id} : games'[j] = games[j]
                   /\ registry' = registry
                   /\ sockets' = sockets
          /\ ~games[id].interval => ~games'[id].interval]_vars

\* One room's loop was stopped by a fault while it was PLAYING with its player
\* still connected, and the other room's loop is running.
C21_Witness ==
    \E i, j \in DOMAIN games :
        /\ games[i].roomId # games[j].roomId
        /\ games[i].gameState = "PLAYING"
        /\ DOMAIN games[i].players # {}
        /\ ~games[i].running
        /\ ~games[i].interval
        /\ games[j].running
        /\ games[j].interval
        /\ DOMAIN games[j].players # {}

\* --------------------------------------------------------------- C22
\* C22: every tick that completes broadcasts exactly one gameState for its
\* game.
C22_OneSnapshotPerTick ==
    [][\A id \in DOMAIN games, raw \in RawDts, oc \in Outcomes :
          (/\ games[id].interval
           /\ Tick(id, raw, oc, "none"))
          => Len(StateMsgs(out', id)) = 1]_vars

\* --------------------------------------------------------------- C23
\* C23: a game whose phase is TERMINATED has no armed interval, and every step
\* leaves its phase TERMINATED, its interval cleared and, as long as the
\* object is in use, its simulation clock, score and timers as they were.
C23_TerminatedIsAbsorbing ==
    [][\A id \in DOMAIN games :
          games[id].gameState = "TERMINATED"
          => /\ ~games[id].interval
             /\ games'[id].gameState = "TERMINATED"
             /\ ~games'[id].interval
             /\ ~games'[id].running
             /\ Reachable(games', registry', sockets', id)
                => /\ games'[id].timeElapsed = games[id].timeElapsed
                   /\ games'[id].score = games[id].score
                   /\ games'[id].countdownTimer = games[id].countdownTimer
                   /\ games'[id].celebrationTimer = games[id].celebrationTimer]_vars

\* A connection has just joined a room whose game is TERMINATED: it was given
\* an edge and the game broadcast its state, still TERMINATED.
C23_Witness ==
    \E id \in DOMAIN games :
        /\ games[id].gameState = "TERMINATED"
        /\ registry[games[id].roomId] = id
        /\ Cardinality(DOMAIN games[id].players) = 2
        /\ Len(out) = 2
        /\ out[1].type = "gameState"
        /\ out[1].gameState = "TERMINATED"
        /\ out[2].type = "init"
        /\ out[2].playerIndex \in 0..(Sides - 1)

\* --------------------------------------------------------------- C24
\* A connected socket whose listeners are bound to a game that does not have
\* it in its player map.
NonPlayer(s) ==
    /\ sockets[s].connected
    /\ sockets[s].handler # 0
    /\ s \notin DOMAIN HandlerGame(s).players

\* C24: an input or playerReady event of such a socket changes no game, no
\* registry entry and no socket, and emits nothing (no broadcast, no error).
C24_UnknownConnectionIgnored ==
    [][\A s \in DOMAIN sockets :
          (/\ NonPlayer(s)
           /\ \/ \E d \in SentDirs : Input(s, d)
              \/ \E b \in BOOLEAN : PlayerReady(s, b))
          => /\ games' = games
             /\ registry' = registry
             /\ sockets' = sockets
             /\ out' = <<>>]_vars

\* A full room in its first countdown with a rejected third connection: no
\* paddle has a pending direction, no edge is ready and the last event emitted
\* nothing, so that event was an input or playerReady of the rejected one.
C24_Witness ==
    \E s \in DOMAIN sockets :
        /\ NonPlayer(s)
        /\ out = <<>>
        /\ HandlerGame(s).gameState = "COUNTDOWN"
        /\ HandlerGame(s).countdownTimer = COUNTDOWN_DURATION
        /\ HandlerGame(s).readyEdges = {}
        /\ Len(HandlerGame(s).paddles) = Sides
        /\ \A i \in DOMAIN HandlerGame(s).paddles :
              HandlerGame(s).paddles[i].moveDirection = 0

\* --------------------------------------------------------------- C25
\* The room ids a socket's disconnect listeners were registered for.
RoomsOf(s) ==
    {sockets[s].onDisconnect[k].roomId : k \in DOMAIN sockets[s].onDisconnect}

\* Every game of a room id outside rs, and the registry entry of every room id
\* outside rs, is as it was before the step.
RoomsUntouchedExcept(rs) ==
    /\ \A id \in DOMAIN games :
          games[id].roomId \notin rs => games'[id] = games[id]
    /\ \A r \in DOMAIN registry \ rs : registry'[r] = registry[r]

\* C25: a joinRoom touches only the room joined (or, when it is refused for
\* its instance tag and drops the socket, the rooms the socket was in), a
\* disconnect only the rooms the socket was in, an input or playerReady only
\* the room its listener is bound to, and a tick, with whatever it brings
\* about (goal, restart, fault), only the room of its game.
\* (Each conjunct reads "the rest is untouched, or the step is not this
\* event"; a tick of a game emits messages of that game only.)
C25_RoomsDoNotInterfere ==
    [][/\ \A s \in DOMAIN sockets, r \in DOMAIN registry, i \in Instances :
             \/ RoomsUntouchedExcept(IF i \in Admitted THEN {r} ELSE RoomsOf(s))
             \/ ~JoinRoom(s, r, i)
       /\ \A s \in DOMAIN sockets :
             \/ RoomsUntouchedExcept(RoomsOf(s))
             \/ ~Disconnect(s)
       /\ \A s \in DOMAIN sockets :
             \/ sockets[s].handler = 0
             \/ RoomsUntouchedExcept({HandlerGame(s).roomId})
             \/ ~(\/ \E d \in KeyDirs : Input(s, d)
                  \/ \E b \in BOOLEAN : PlayerReady(s, b))
       /\ \A id \in DOMAIN games :
             \/ RoomsUntouchedExcept({games[id].roomId})
             \/ ~(/\ games[id].interval
                  /\ \A k \in DOMAIN out' :
                        out'[k].type \in {"gameState", "gameEvent"}
                        /\ out'[k].game = id
                  /\ \E raw \in RawDts, oc \in Outcomes, f \in Faults :
                        Tick(id, raw, oc, f))]_vars

\* One room's only player has just left it in mid-play, which terminated and
\* removed it, while the other room is in play with its paddle on the move.
C25_Witness ==
    \E i, j \in DOMAIN games :
        /\ games[i].roomId # games[j].roomId
        /\ games[i].gameState = "TERMINATED"
        /\ Len(TerminatedMsgs(out, i)) = 1
        /\ registry[games[i].roomId] = 0
        /\ registry[games[j].roomId] = j
        /\ games[j].gameState = "PLAYING"
        /\ games[j].interval
        /\ games[j].timeElapsed > 0
        /\ Len(games[j].paddles) = 1
        /\ games[j].paddles[1].moveDirection = 1

\* --------------------------------------------------------------- C26
\* The pending directions of the paddles on one edge of a game.
DirectionsOn(game, e) ==
    {game.paddles[i].moveDirection :
        i \in {j \in DOMAIN game.paddles : game.paddles[j].edgeIndex = e}}

\* The paddle on edge e of game id is there before and after the step, with a
\* different pending direction.
DirectionChanged(id, e) ==
    /\ Reachable(games', registry', sockets', id)
    /\ DirectionsOn(games[id], e) # {}
    /\ DirectionsOn(games'[id], e) # {}
    /\ DirectionsOn(games'[id], e) # DirectionsOn(games[id], e)

\* The step is an input event of the player who holds edge e of game id.
OwnerInput(id, e) ==
    \E s \in DOMAIN sockets :
        /\ sockets[s].handler = id
        /\ s \in DOMAIN games[id].players
        /\ games[id].players[s] = e
        /\ \E d \in KeyDirs : Input(s, d)

\* C26 (as stated): a paddle's pending moveDirection changes only in an input
\* event of its owner; no tick, ready toggle, join, leave, goal or restart
\* changes it.
C26_DirectionPersists ==
    [][\A id \in DOMAIN games, e \in 0..(Sides - 1) :
          DirectionChanged(id, e) => OwnerInput(id, e)]_vars

\* C26 (amended): a paddle's pending moveDirection changes only in an input
\* event of its owner or in a restart, which leaves SCORING for COUNTDOWN and
\* sets it to 0.
C26_DirectionPersistsUntilInputOrRestart ==
    [][\A id \in DOMAIN games, e \in 0..(Sides - 1) :
          DirectionChanged(id, e)
          => \/ OwnerInput(id, e)
             \/ /\ games[id].gameState = "SCORING"
                /\ Restarted(id)
                /\ DirectionsOn(games'[id], e) = {0}]_vars

\* A direction set during play has survived the ticks up to and including the
\* one that conceded the goal: the game is in SCORING, where input is ignored,
\* and the paddle still moves.
C26_Witness ==
    \E id \in DOMAIN games :
        /\ games[id].gameState = "SCORING"
        /\ Len(GoalMsgs(out, id)) > 0
        /\ \E i \in DOMAIN games[id].paddles :
              games[id].paddles[i].moveDirection = 1

\* --------------------------------------------------------------- C27
\* C27: whatever dir an input event carries, the moveDirection stored on every
\* paddle is one of -1, 0, +1 in every reachable state.
C27_DirectionClamped ==
    \A id \in DOMAIN games :
        \A i \in DOMAIN games[id].paddles :
            games[id].paddles[i].moveDirection \in Dirs

\* ------------------------------------------- the share text (browser)
\* ShareManager.getShareText reads window.game. In ShareSpec, games holds
\* window.game (no element: no game object) and out holds the text handed to
\* the share dialog by the last call.
MaxShown == 11
ClientPhases == {"COUNTDOWN", "PLAYING", "SCORING", "TERMINATED"}
Modes == {"local", "online"}

WindowGames ==
    [hasPlayed : BOOLEAN, gameState : ClientPhases, mode : Modes,
     finalTime : 0..MaxShown, lastScore : 0..MaxShown]

\* this.text and the invite text, as sequences of text pieces
DefaultText == <<"For your consideration, I am sharing this polygon pong game.">>
InviteText ==
    <<"Care to join us for our imminent game of Polypongon? Join us at">>

Digit(d) ==
    CASE d = 0 -> "0" [] d = 1 -> "1" [] d = 2 -> "2" [] d = 3 -> "3"
      [] d = 4 -> "4" [] d = 5 -> "5" [] d = 6 -> "6" [] d = 7 -> "7"
      [] d = 8 -> "8" [] d = 9 -> "9"

\* `${n}` for a non-negative integer n: its decimal digits
RECURSIVE Decimal(_)
Decimal(n) ==
    IF n < 10 THEN <<Digit(n)>>
    ELSE Decimal(n \div 10) \o <<Digit(n % 10)>>

\* getShareText as it would be without the phase test.
getShareText_IgnoresPhase(window, isInvite) ==
    IF /\ Len(window) > 0
       /\ window[1].hasPlayed
    THEN LET game == window[1]
             isMulti == game.mode = "online"
             subject == IF isMulti THEN "We" ELSE "I"
             text == <<subject, " survived ">> \o Decimal(game.finalTime)
                        \o <<" seconds with a score of ">>
                        \o Decimal(game.lastScore) \o <<" !">>
         IN IF isMulti THEN text \o <<" Join us at">> ELSE text
    ELSE IF isInvite THEN InviteText ELSE DefaultText

\* ShareManager.getShareText(game, isInvite)
getShareText(window, isInvite) ==
    IF /\ Len(window) > 0
       /\ window[1].hasPlayed
       /\ window[1].gameState \in {"SCORING", "TERMINATED"}
    THEN LET game == window[1]
             isMulti == game.mode = "online"
             subject == IF isMulti THEN "We" ELSE "I"
             text == <<subject, " survived ">> \o Decimal(game.finalTime)
                        \o <<" seconds with a score of ">>
                        \o Decimal(game.lastScore) \o <<" !">>
         IN IF isMulti THEN text \o <<" Join us at">> ELSE text
    ELSE IF isInvite THEN InviteText ELSE DefaultText

\* ShareManager.share / getSocialLinks without a custom text
Share(isInvite) ==
    /\ out' = <<[type |-> "shareText", isInvite |-> isInvite,
                 text |-> getShareText(games, isInvite)]>>
    /\ UNCHANGED <<games, registry, sockets, env>>

ShareInit ==
    /\ games \in {<<>>} \cup {<<g>> : g \in WindowGames}
    /\ registry = [r \in {} |-> 0]
    /\ sockets = [s \in {} |-> SocketGone]
    /\ out = <<>>
    /\ env = LocalProcess

ShareNext == \E isInvite \in BOOLEAN : Share(isInvite)

ShareSpec == ShareInit /\ [][ShareNext]_vars

\* --------------------------------------------------------------- C28
\* The score sentence of the claim, for a subject, a time and a score.
Survived(subject, finalTime, lastScore) ==
    <<subject, " survived ">> \o Decimal(finalTime)
        \o <<" seconds with a score of ">> \o Decimal(lastScore) \o <<" !">>

\* window.game exists, has played and is in SCORING or TERMINATED.
HasScoreToShare ==
    /\ Len(games) > 0
    /\ games[1].hasPlayed
    /\ games[1].gameState \in {"SCORING", "TERMINATED"}

\* C28: getShareText returns '<I|We> survived <finalTime> seconds with a score
\* of <lastScore> !' exactly when the game has played and its phase is SCORING
\* or TERMINATED, with subject 'We' and the suffix ' Join us at' if and only
\* if the mode is online; in every other case it returns the invite text when
\* isInvite is true and the default text otherwise, so that no score appears
\* once hasPlayed or the phase is reset.
C28_ShareText ==
    \A k \in DOMAIN out :
        LET text == out[k].text
        IN /\ HasScoreToShare /\ games[1].mode = "online"
              => text = Survived("We", games[1].finalTime, games[1].lastScore)
                            \o <<" Join us at">>
           /\ HasScoreToShare /\ games[1].mode # "online"
              => text = Survived("I", games[1].finalTime, games[1].lastScore)
           /\ ~HasScoreToShare
              => text = IF out[k].isInvite THEN InviteText ELSE DefaultText
           /\ HasScoreToShare <=> (Len(text) > 1 /\ text[2] = " survived ")

\* An online game that ended after 10 or more seconds is shared as an invite:
\* the text is the score sentence with 'We' and the join suffix.
C28_Witness ==
    /\ Len(games) > 0
    /\ games[1].mode = "online"
    /\ games[1].gameState = "TERMINATED"
    /\ games[1].finalTime >= 10
    /\ Len(out) = 1
    /\ out[1].isInvite
    /\ out[1].text[1] = "We"
    /\ out[1].text[Len(out[1].text)] = " Join us at"

\* --------------------------------------------------------------- C29
\* Game id is in SCORING before the step and in COUNTDOWN after it.
LeavesScoring(id) ==
    /\ Reachable(games', registry', sockets', id)
    /\ games[id].gameState = "SCORING"
    /\ games'[id].gameState = "COUNTDOWN"

\* C29: a room leaves SCORING for COUNTDOWN only in a step at which
\* celebrationTimer is 0 (or reaches 0, in a tick), at least one player is
\* connected and every connected player's edge is ready -- counting the toggle
\* of the step, discounting the player who leaves in it. There is no timeout:
\* while a player neither readies nor leaves the room stays in SCORING, and a
\* tick leaves it there with the loop armed.
C29_RestartOnlyWhenAllReady ==
    [][\A id \in DOMAIN games :
          /\ LeavesScoring(id)
             => \/ \E s \in DOMAIN sockets, b \in BOOLEAN :
                      /\ sockets[s].handler = id
                      /\ Toggles(s, b)
                      /\ games[id].celebrationTimer = 0
                      /\ AllReady(games[id].players,
                                  ReadyAfterToggle(games[id], s, b))
                \/ \E s \in DOMAIN sockets :
                      /\ Leaves(s, id)
                      /\ games[id].celebrationTimer = 0
                      /\ DOMAIN PlayersWithout(games[id], s) # {}
                      /\ AllReady(PlayersWithout(games[id], s),
                                  games[id].readyEdges \ {games[id].players[s]})
                \/ \E raw \in RawDts, f \in Faults :
                      /\ games[id].celebrationTimer > 0
                      /\ ClampDt(raw) >= games[id].celebrationTimer
                      /\ DOMAIN games[id].players # {}
                      /\ AllReady(games[id].players, games[id].readyEdges)
                      /\ Tick(id, raw, [kind |-> "none", edgeIndex |-> 0], f)
          /\ \A s \in DOMAIN games[id].players :
                (/\ games[id].gameState = "SCORING"
                 /\ games[id].players[s] \notin games[id].readyEdges
                 /\ Reachable(games', registry', sockets', id)
                 /\ s \in DOMAIN games'[id].players
                 /\ ~Toggles(s, TRUE))
                => games'[id].gameState = "SCORING"
          /\ (/\ games[id].gameState = "SCORING"
              /\ ~AllReady(games[id].players, games[id].readyEdges)
              /\ \E raw \in RawDts :
                    Tick(id, raw, [kind |-> "none", edgeIndex |-> 0], "none"))
             => /\ games'[id].gameState = "SCORING"
                /\ games'[id].interval
                /\ games'[id].running]_vars

\* The celebration is over, one of the two players is ready and the other is
\* not: the room is still in SCORING, its loop armed, and the snapshot just
\* sent says so.
C29_Witness ==
    \E id \in DOMAIN games :
        /\ games[id].gameState = "SCORING"
        /\ games[id].celebrationTimer = 0
        /\ games[id].interval
        /\ \E s, u \in DOMAIN games[id].players :
              /\ games[id].players[s] \in games[id].readyEdges
              /\ games[id].players[u] \notin games[id].readyEdges
        /\ Len(StateMsgs(out, id)) = 1
        /\ StateMsgs(out, id)[1].gameState = "SCORING"
        /\ StateMsgs(out, id)[1].celebrationTimer = 0

\* --------------------------------------------------------------- C30
\* C30: in every reachable state of a room, the edges that carry a paddle are
\* the edges of the player map, one paddle each -- also after a connection has
\* sent joinRoom for the same room more than once.
C30_PaddlesMatchPlayers ==
    \A id \in DOMAIN games :
        Reachable(games, registry, sockets, id)
        => /\ PaddleEdges(games[id])
                = {games[id].players[s] : s \in DOMAIN games[id].players}
           /\ Len(games[id].paddles) = Cardinality(DOMAIN games[id].players)

\* --------------------------------------------------------------- C31
\* A game that is in the registry, has a connected player and is not
\* TERMINATED.
Live(gs, reg, id) ==
    /\ \E r \in DOMAIN reg : reg[r] = id
    /\ DOMAIN gs[id].players # {}
    /\ gs[id].gameState # "TERMINATED"

HasLoop(game) == game.running /\ game.interval

\* The step is a tick of game id that throws.
FaultyTick(id) ==
    /\ games[id].interval
    /\ \E raw \in RawDts, oc \in Outcomes, f \in Faults \ {"none"} :
          Tick(id, raw, oc, f)

\* C31 (as stated): in every reachable state, a game that is in the registry,
\* has at least one connected player and is not TERMINATED has a running tick
\* loop: running is true and its interval is armed.
C31_LiveGameHasLoop ==
    \A id \in DOMAIN games :
        Live(games, registry, id) => HasLoop(games[id])

\* C31 (amended): a game that is in the registry, has a connected player and
\* is not TERMINATED has a running tick loop unless a tick of it has thrown:
\* a step ends with such a game without its loop only if the game was such a
\* game without its loop before the step, or the step is a tick of it that
\* throws.
C31_LiveGameHasLoopUnlessFaulted ==
    [][\A id \in DOMAIN games' :
          (Live(games', registry', id) /\ ~HasLoop(games'[id]))
          => /\ id \in DOMAIN games
             /\ \/ Live(games, registry, id) /\ ~HasLoop(games[id])
                \/ FaultyTick(id)]_vars

\* The player who joined first has left during the celebration; the player
\* on edge 1 is alone in the room, which is registered, in SCORING, and still
\* ticking.
C31_Witness ==
    \E id \in DOMAIN games :
        /\ Live(games, registry, id)
        /\ HasLoop(games[id])
        /\ games[id].gameState = "SCORING"
        /\ games[id].celebrationTimer > 0
        /\ {games[id].players[s] : s \in DOMAIN games[id].players} = {1}
        /\ \E s \in DOMAIN sockets : ~sockets[s].connected

====
